---------------------------- MODULE Spec2Model ----------------------------
(***************************************************************************)
(* Model of the Cloud-SaC-Pipeline scripts:                                *)
(*   scripts/security-gate.py       the policy gate (SecurityGate)         *)
(*   scripts/generate-pr-comment.py the report renderer                    *)
(*   scripts/scan.py                the scan orchestrator (SecurityScanner)*)
(*                                                                         *)
(* Four specifications share the variables of the module:                  *)
(*   SpecClassify  the three check-id classifiers applied to one check id  *)
(*   SpecGate      the gate and the renderer run on one results directory  *)
(*   SpecScan      one run of the orchestrator's run_all_scans and exit    *)
(*   SpecTruncate  the renderer's truncate_text applied to one string      *)
(***************************************************************************)
EXTENDS Integers, Sequences, FiniteSets, TLC

(***************************************************************************)
(* Bounds of the model.                                                    *)
(***************************************************************************)
\* longest check id, in lexical tokens
MaxIdLen == 5
\* longest failed_checks list enumerated in full by the gate/renderer model
MaxChecks == 2
\* largest max_critical / max_high policy value
MaxThreshold == 2
\* longest raw finding list enumerated in full by the orchestrator model
MaxFindings == 2
\* longest text handed to truncate_text, in characters
MaxTextLen == 5
\* largest max_length handed to truncate_text
MaxTruncLen == 5

(***************************************************************************)
(* Strings.  A check id is a sequence of lexical tokens; every pattern the *)
(* source searches for is a token sequence too, and `pattern in check_id'  *)
(* is contiguous sub-sequence containment.  The tokens are chosen so that  *)
(* a character-level occurrence of a pattern in a concatenation of tokens  *)
(* always starts and ends on token boundaries (every pattern starts with   *)
(* "CKV", whose characters C,K occur adjacent in no other token, and no    *)
(* token other than "_GCP"/"_AWS" continues "_" with a letter).            *)
(***************************************************************************)
Tokens == {"CKV", "2", "_GCP", "_AWS", "_", "6", "1", "4"}

SeqsUpTo(S, n) == UNION {[1..k -> S] : k \in 0..n}

\* Python's `pat in s' for strings
Contains(pat, s) ==
    \E i \in 1..(Len(s) - Len(pat) + 1) : SubSeq(s, i, i + Len(pat) - 1) = pat

(***************************************************************************)
(* JSON field values as Python sees them after dict.get: the key may be    *)
(* absent, hold null (None), or hold a string.                             *)
(***************************************************************************)
Absent == [t |-> "absent", v |-> <<>>]
Null == [t |-> "null", v |-> <<>>]
Str(s) == [t |-> "str", v |-> s]

\* dict.get(key) : an absent key reads as None
Get(field) == IF field.t = "absent" THEN Null ELSE field
\* dict.get(key, default) : only an absent key takes the default
GetDefault(field, default) == IF field.t = "absent" THEN default ELSE field

(***************************************************************************)
(* The patterns of the three classifiers.                                  *)
(***************************************************************************)
CKV_GCP_62 == <<"CKV", "_GCP", "_", "6", "2">>
CKV_GCP_6 == <<"CKV", "_GCP", "_", "6">>
CKV_GCP_14 == <<"CKV", "_GCP", "_", "1", "4">>
CKV_GCP == <<"CKV", "_GCP">>
CKV_AWS == <<"CKV", "_AWS">>
CKV_GCP_us == <<"CKV", "_GCP", "_">>
CKV_AWS_us == <<"CKV", "_AWS", "_">>
CKV2 == <<"CKV", "2">>

\* security-gate.py:29 and generate-pr-comment.py:34
gate_critical_ids == {CKV_GCP_62, CKV_GCP_6, CKV_GCP_14}
\* scan.py:258
critical_patterns == {CKV_GCP_6, CKV_GCP_62, CKV_GCP_14}
\* scan.py:259
high_patterns == {CKV_GCP_us, CKV_AWS_us}

\* `x in None' raises TypeError
TypeError == "TypeError"

\* security-gate.py, SecurityGate.categorize_severity with HIGH tested first
categorize_severity_high_first(check_id) ==
    IF check_id.t # "str" THEN TypeError
    ELSE IF Contains(CKV_GCP, check_id.v) \/ Contains(CKV_AWS, check_id.v)
         THEN "HIGH"
    ELSE IF \E cid \in gate_critical_ids : Contains(cid, check_id.v)
         THEN "CRITICAL"
    ELSE IF Contains(CKV2, check_id.v) THEN "MEDIUM"
    ELSE "LOW"

\* security-gate.py, SecurityGate.categorize_severity
categorize_severity(check_id) ==
    IF check_id.t # "str" THEN TypeError
    ELSE IF \E cid \in gate_critical_ids : Contains(cid, check_id.v)
         THEN "CRITICAL"
    ELSE IF Contains(CKV_GCP, check_id.v) \/ Contains(CKV_AWS, check_id.v)
         THEN "HIGH"
    ELSE IF Contains(CKV2, check_id.v) THEN "MEDIUM"
    ELSE "LOW"

\* the renderer's chain without its CKV2 step: everything else is MEDIUM
renderer_severity_no_low(check_id) ==
    IF check_id.t # "str" THEN TypeError
    ELSE IF \E cid \in gate_critical_ids : Contains(cid, check_id.v)
         THEN "CRITICAL"
    ELSE IF Contains(CKV_GCP, check_id.v) \/ Contains(CKV_AWS, check_id.v)
         THEN "HIGH"
    ELSE "MEDIUM"

\* generate-pr-comment.py, the if/elif chain inside categorize_by_severity
renderer_severity(check_id) ==
    IF check_id.t # "str" THEN TypeError
    ELSE IF \E cid \in gate_critical_ids : Contains(cid, check_id.v)
         THEN "CRITICAL"
    ELSE IF Contains(CKV_GCP, check_id.v) \/ Contains(CKV_AWS, check_id.v)
         THEN "HIGH"
    ELSE IF Contains(CKV2, check_id.v) THEN "MEDIUM"
    ELSE "LOW"

\* scan.py, SecurityScanner._map_checkov_severity
map_checkov_severity(check_id) ==
    IF check_id.t # "str" THEN TypeError
    ELSE IF \E pattern \in critical_patterns : Contains(pattern, check_id.v)
         THEN "CRITICAL"
    ELSE IF \E pattern \in high_patterns : Contains(pattern, check_id.v)
         THEN "HIGH"
    ELSE "MEDIUM"

VARIABLES
    \* SpecClassify
    check_id,        \* the check id handed to the classifiers
    sev,             \* caller -> the severity it computed, or "unset"
    \* SpecGate
    results_file,    \* results_json.json in the results directory
    max_critical,    \* SecurityGate.max_critical
    max_high,        \* SecurityGate.max_high
    gate,            \* outcome of SecurityGate.evaluate / main
    comment,         \* outcome of generate_pr_comment
    \* SpecScan
    pc,              \* position inside run_all_scans / main
    results,         \* SecurityScanner.results
    ret,             \* tf_passed, checkov_passed, tfsec_passed
    invocation,      \* what the external process of the last tool did
    summary_status,  \* Overall Status line of the summary report
    exit_code,       \* process exit code of scan.py
    \* SpecTruncate
    text,            \* truncate_text's text
    max_length,      \* truncate_text's max_length
    truncated        \* what truncate_text returned

vars == <<check_id, sev, results_file, max_critical, max_high, gate, comment,
          pc, results, ret, invocation, summary_status, exit_code,
          text, max_length, truncated>>

classifyVars == <<check_id, sev>>
gateVars == <<results_file, max_critical, max_high, gate, comment>>
scanVars == <<pc, results, ret, invocation, summary_status, exit_code>>
truncVars == <<text, max_length, truncated>>


(***************************************************************************)
(* Results documents.  results_json.json is absent, is not JSON, or is a   *)
(* JSON object: `summary' and `results' say whether those keys are         *)
(* present, `fc' whether results.failed_checks is, and failed_checks is    *)
(* the list of raw check records (empty when the key is absent).           *)
(***************************************************************************)
NoFile ==
    [kind |-> "absent", summary |-> FALSE, results |-> FALSE, fc |-> FALSE,
     failed_checks |-> <<>>]
NotJson ==
    [kind |-> "not_json", summary |-> FALSE, results |-> FALSE, fc |-> FALSE,
     failed_checks |-> <<>>]
Doc(hasSummary, hasResults, hasFailedChecks, checks) ==
    [kind |-> "doc", summary |-> hasSummary, results |-> hasResults,
     fc |-> hasFailedChecks, failed_checks |-> checks]
\* the JSON object {}
EmptyDoc == Doc(FALSE, FALSE, FALSE, <<>>)

\* the thresholds the scripts hard-code
RendererHighLimit == 5
ScannerHighLimit == 5
ScannerCriticalLimit == 0
\* argparse defaults of security-gate.py
DefaultMaxCritical == 0
DefaultMaxHigh == 5

\* every list of up to n records, and every uniform list long enough to
\* cross the hard-coded high limit
FindingLists(S, n) ==
    SeqsUpTo(S, n) \cup
    {[i \in 1..k |-> x] : k \in 1..(ScannerHighLimit + 1), x \in S}

\* representative check ids: CRITICAL, HIGH, MEDIUM (CKV2), LOW, and the two
\* malformed shapes
SampleCheckIds ==
    {Str(CKV_GCP_62), Str(<<"CKV", "_GCP", "_", "1">>),
     Str(<<"CKV", "2", "_GCP", "_", "1">>), Str(<<"CKV", "_", "1">>),
     Absent, Null}

RawChecks == {[check_id |-> c] : c \in SampleCheckIds}

DocsOver(lists) ==
    {Doc(s, TRUE, TRUE, l) : s \in BOOLEAN, l \in lists}
    \cup {Doc(s, TRUE, FALSE, <<>>) : s \in BOOLEAN}
    \cup {Doc(s, FALSE, FALSE, <<>>) : s \in BOOLEAN}

GateFiles == {NoFile, NotJson} \cup DocsOver(FindingLists(RawChecks, MaxChecks))

\* Python truthiness of a dict: `not data' holds of the empty dict only
Falsy(data) == ~data.summary /\ ~data.results

\* data.get('results', {}).get('failed_checks', [])
failed_checks_of(data) ==
    IF data.results /\ data.fc THEN data.failed_checks ELSE <<>>

ZeroCounts == [CRITICAL |-> 0, HIGH |-> 0, MEDIUM |-> 0, LOW |-> 0]

(***************************************************************************)
(* security-gate.py                                                        *)
(***************************************************************************)
\* SecurityGate.load_checkov_results: {} when the file does not exist,
\* json.load otherwise (which raises on a file that is not JSON)
gate_load_checkov_results(file) ==
    IF file.kind = "absent"
    THEN [raised |-> FALSE, data |-> EmptyDoc, printed |-> {"results_not_found"}]
    ELSE IF file.kind = "not_json"
    THEN [raised |-> TRUE, data |-> EmptyDoc, printed |-> {}]
    ELSE [raised |-> FALSE, data |-> file, printed |-> {}]

\* `if not checkov_data' dropped: evaluation goes on with the empty dict
gate_no_data_never(data) == FALSE

\* the guard of security-gate.py:45
gate_no_data(data) == Falsy(data)

\* the threshold test written with >=
ExceedsOrEqual(count, max) == count >= max

\* the threshold tests of security-gate.py:77 and :84
Exceeds(count, max) == count > max

\* the loop of security-gate.py:59-61; a TypeError leaves the loop
RECURSIVE gate_count(_, _)
gate_count(checks, counts) ==
    IF checks = <<>> THEN [raised |-> FALSE, counts |-> counts]
    ELSE LET severity ==
                 categorize_severity(GetDefault(Head(checks).check_id, Str(<<>>)))
         IN  IF severity = TypeError
             THEN [raised |-> TRUE, counts |-> counts]
             ELSE gate_count(Tail(checks), [counts EXCEPT ![severity] = @ + 1])

GateUnset ==
    [outcome |-> "unset", passed |-> FALSE, tallied |-> FALSE,
     counts |-> ZeroCounts, reasons |-> <<>>, printed |-> {}, exit |-> "none"]

\* a reason that names the maximum where the observed count belongs
ReasonSwapped(kind, count, max) == [kind |-> kind, count |-> max, max |-> count]

Reason(kind, count, max) == [kind |-> kind, count |-> count, max |-> max]

\* SecurityGate.evaluate followed by main's sys.exit; an exception that
\* leaves evaluate ends the process with a traceback and exit code 1
evaluate(file, maxc, maxh) ==
    LET loaded == gate_load_checkov_results(file) IN
    IF loaded.raised
    THEN [GateUnset EXCEPT !.outcome = "raised", !.exit = "1"]
    ELSE IF gate_no_data(loaded.data)
    THEN [GateUnset EXCEPT !.outcome = "returned", !.passed = FALSE,
                           !.printed = loaded.printed \cup {"no_scan_results"},
                           !.exit = "1"]
    ELSE
    LET tally == gate_count(failed_checks_of(loaded.data), ZeroCounts) IN
    IF tally.raised
    THEN [GateUnset EXCEPT !.outcome = "raised", !.printed = loaded.printed,
                           !.exit = "1"]
    ELSE
    LET c == tally.counts
        r1 == IF Exceeds(c.CRITICAL, maxc)
              THEN <<Reason("critical", c.CRITICAL, maxc)>> ELSE <<>>
        r2 == IF Exceeds(c.HIGH, maxh)
              THEN <<Reason("high", c.HIGH, maxh)>> ELSE <<>>
        passed == ~Exceeds(c.CRITICAL, maxc) /\ ~Exceeds(c.HIGH, maxh)
    IN  [outcome |-> "returned", passed |-> passed, tallied |-> TRUE,
         counts |-> c, reasons |-> r1 \o r2,
         printed |-> loaded.printed \cup {IF passed THEN "PASSED" ELSE "FAILED"},
         exit |-> IF passed THEN "0" ELSE "1"]

(***************************************************************************)
(* generate-pr-comment.py                                                  *)
(***************************************************************************)
\* load_checkov_results of generate-pr-comment.py
renderer_load_checkov_results(file) ==
    IF file.kind = "absent" THEN [raised |-> FALSE, data |-> EmptyDoc]
    ELSE IF file.kind = "not_json" THEN [raised |-> TRUE, data |-> EmptyDoc]
    ELSE [raised |-> FALSE, data |-> file]

EmptyMap == [CRITICAL |-> <<>>, HIGH |-> <<>>, MEDIUM |-> <<>>, LOW |-> <<>>]

\* categorize_by_severity: each finding is appended to its severity's list
RECURSIVE categorize_by_severity(_, _)
categorize_by_severity(findings, severity_map) ==
    IF findings = <<>> THEN [raised |-> FALSE, map |-> severity_map]
    ELSE LET severity ==
                 renderer_severity(GetDefault(Head(findings).check_id, Str(<<>>)))
         IN  IF severity = TypeError
             THEN [raised |-> TRUE, map |-> severity_map]
             ELSE categorize_by_severity(
                      Tail(findings),
                      [severity_map EXCEPT ![severity] = Append(@, Head(findings))])

\* the status tiers of generate-pr-comment.py:80-91
status_text(critical_count, high_count) ==
    IF critical_count > 0 THEN "FAILED - Critical issues found"
    ELSE IF high_count > RendererHighLimit
         THEN "WARNING - Multiple high severity issues"
    ELSE IF high_count > 0 THEN "ATTENTION - High severity issues found"
    ELSE "PASSED - No critical/high issues"

\* Python's text[:k]: the first k characters, or all but the last -k when
\* k is negative
SliceTo(s, k) ==
    IF k >= 0
    THEN SubSeq(s, 1, IF k < Len(s) THEN k ELSE Len(s))
    ELSE SubSeq(s, 1, IF Len(s) + k > 0 THEN Len(s) + k ELSE 0)

\* the ellipsis marker "..."
Ellipsis == <<".", ".", ".">>

\* truncate_text keeping max_length - 2 characters before the marker
truncate_text_keep_two(s, n) ==
    IF Len(s) <= n THEN s ELSE SliceTo(s, n - 2) \o Ellipsis

\* truncate_text
truncate_text(s, n) ==
    IF Len(s) <= n THEN s ELSE SliceTo(s, n - 3) \o Ellipsis

CommentUnset ==
    [outcome |-> "unset", loaded |-> FALSE, status |-> "none",
     counts |-> ZeroCounts]

\* generate_pr_comment: the status banner and the four counts it presents
generate_pr_comment(file) ==
    LET loaded == renderer_load_checkov_results(file) IN
    IF loaded.raised THEN [CommentUnset EXCEPT !.outcome = "raised"]
    ELSE IF Falsy(loaded.data)
    THEN [CommentUnset EXCEPT !.outcome = "returned",
                              !.status = "Could not load security scan results"]
    ELSE
    LET cat == categorize_by_severity(failed_checks_of(loaded.data), EmptyMap) IN
    IF cat.raised THEN [CommentUnset EXCEPT !.outcome = "raised"]
    ELSE [outcome |-> "returned", loaded |-> TRUE,
          status |-> status_text(Len(cat.map.CRITICAL), Len(cat.map.HIGH)),
          counts |-> [CRITICAL |-> Len(cat.map.CRITICAL),
                      HIGH |-> Len(cat.map.HIGH),
                      MEDIUM |-> Len(cat.map.MEDIUM),
                      LOW |-> Len(cat.map.LOW)]]

(***************************************************************************)
(* scan.py                                                                 *)
(***************************************************************************)
ToolNames == {"terraform_validate", "checkov", "tfsec"}

\* an entry of SecurityScanner.results: `set' is FALSE while the entry is
\* None; `error' says an except branch filled the entry; findings holds the
\* severity of each normalized finding, in order
ResultNone ==
    [set |-> FALSE, passed |-> FALSE, skipped |-> FALSE, error |-> FALSE,
     findings |-> <<>>]
\* the dict each run_* method starts from: {"passed": False, ...}
ResultInit == [ResultNone EXCEPT !.set = TRUE]

\* str.upper on the severity words tfsec may emit
UpperWord ==
    [w \in {"critical", "CRITICAL", "high", "High", "HIGH", "medium", "MEDIUM",
            "low", "LOW", "info", "INFO", "warning", "WARNING", "UNKNOWN"} |->
        CASE w \in {"critical", "CRITICAL"} -> "CRITICAL"
          [] w \in {"high", "High", "HIGH"} -> "HIGH"
          [] w \in {"medium", "MEDIUM"} -> "MEDIUM"
          [] w \in {"low", "LOW"} -> "LOW"
          [] w \in {"info", "INFO"} -> "INFO"
          [] w \in {"warning", "WARNING"} -> "WARNING"
          [] OTHER -> "UNKNOWN"]

\* None.upper() raises AttributeError
AttributeError == "AttributeError"

\* finding.get("severity", "UNKNOWN").upper(); a severity is a one-word string
tfsec_severity(field) ==
    LET value == GetDefault(field, Str(<<"UNKNOWN">>)) IN
    IF value.t # "str" THEN AttributeError ELSE UpperWord[value.v[1]]

\* the severities a tfsec finding may carry in the model
SampleSeverities ==
    {Str(<<"critical">>), Str(<<"HIGH">>), Str(<<"low">>), Str(<<"info">>),
     Absent, Null}
RawTfsecFindings == {[severity |-> x] : x \in SampleSeverities}

\* stdout of `tfsec --format json': empty, not JSON, or an object whose
\* `results' key is absent or holds the list of findings
TfsecEmpty == [kind |-> "empty", has_results |-> FALSE, results |-> <<>>]
TfsecNotJson == [kind |-> "not_json", has_results |-> FALSE, results |-> <<>>]
TfsecDoc(hasResults, findings) ==
    [kind |-> "doc", has_results |-> hasResults, results |-> findings]
TfsecOutputs ==
    {TfsecEmpty, TfsecNotJson, TfsecDoc(FALSE, <<>>)}
    \cup {TfsecDoc(TRUE, l) : l \in FindingLists(RawTfsecFindings, MaxFindings)}

ScanFiles == {NoFile, NotJson} \cup DocsOver(FindingLists(RawChecks, MaxFindings))

Count(findings, severity) ==
    Cardinality({i \in 1..Len(findings) : findings[i] = severity})

\* scan.py:161-164 and :237-240: critical_count == 0 and high_count <= 5
scanner_passed(findings) ==
    Count(findings, "CRITICAL") = ScannerCriticalLimit
    /\ Count(findings, "HIGH") <= ScannerHighLimit

\* run_terraform_validate: `init' is the outcome of terraform init (run with
\* check=True), `validate' what terraform validate -json printed
terraform_validate_result(init, validate) ==
    IF init # "zero" THEN [ResultInit EXCEPT !.error = TRUE]
    ELSE IF validate = "not_json" THEN [ResultInit EXCEPT !.error = TRUE]
    ELSE IF validate = "valid_true" THEN [ResultInit EXCEPT !.passed = TRUE]
    ELSE ResultInit

\* the loop of scan.py:150-158; a TypeError in _map_checkov_severity leaves it
\* with the findings appended so far
RECURSIVE checkov_findings(_, _)
checkov_findings(checks, findings) ==
    IF checks = <<>> THEN [raised |-> FALSE, findings |-> findings]
    ELSE LET severity == map_checkov_severity(Get(Head(checks).check_id)) IN
         IF severity = TypeError
         THEN [raised |-> TRUE, findings |-> findings]
         ELSE checkov_findings(Tail(checks), Append(findings, severity))

\* run_checkov: `exit' is how the checkov process ended (its return code is
\* not read), `file' is results_json.json in the output directory afterwards
checkov_result(exit, file) ==
    IF exit = "not_installed" THEN [ResultInit EXCEPT !.error = TRUE]
    ELSE IF file.kind = "absent" THEN ResultInit
    ELSE IF file.kind = "not_json" THEN [ResultInit EXCEPT !.error = TRUE]
    ELSE LET loop == checkov_findings(failed_checks_of(file), <<>>) IN
         IF loop.raised
         THEN [ResultInit EXCEPT !.error = TRUE, !.findings = loop.findings]
         ELSE [ResultInit EXCEPT !.passed = scanner_passed(loop.findings),
                                 !.findings = loop.findings]

\* the loop of scan.py:228-235
RECURSIVE tfsec_findings(_, _)
tfsec_findings(raw, findings) ==
    IF raw = <<>> THEN [raised |-> FALSE, findings |-> findings]
    ELSE LET severity == tfsec_severity(Head(raw).severity) IN
         IF severity = AttributeError
         THEN [raised |-> TRUE, findings |-> findings]
         ELSE tfsec_findings(Tail(raw), Append(findings, severity))

\* a skipped tfsec reported to run_all_scans as failed
tfsec_skipped_return_false == FALSE

\* scan.py:209: what run_tfsec returns when it records tfsec as skipped
tfsec_skipped_return == TRUE

\* scan.py:203-205: the probe `tfsec --version' (check=True) raised
\* CalledProcessError or FileNotFoundError
tfsec_probe_failed(probe) == probe \in {"nonzero", "not_installed"}

\* run_tfsec: `probe' is the outcome of tfsec --version, `stdout' what the
\* scan printed
tfsec_result(probe, stdout) ==
    IF tfsec_probe_failed(probe) THEN [ResultInit EXCEPT !.skipped = TRUE]
    ELSE IF stdout.kind = "empty" THEN ResultInit
    ELSE IF stdout.kind = "not_json" THEN [ResultInit EXCEPT !.error = TRUE]
    ELSE LET loop == tfsec_findings(
                         IF stdout.has_results THEN stdout.results ELSE <<>>, <<>>)
         IN  IF loop.raised
             THEN [ResultInit EXCEPT !.error = TRUE, !.findings = loop.findings]
             ELSE [ResultInit EXCEPT !.passed = scanner_passed(loop.findings),
                                     !.findings = loop.findings]

\* the value run_tfsec returns beside the result
tfsec_return(result) ==
    IF result.skipped THEN tfsec_skipped_return ELSE result.passed

\* the summary's conjunction without its `not r.get("skipped")' exemption
all_passed_counting_skipped(res) ==
    \A tool \in ToolNames : IF res[tool].set THEN res[tool].passed ELSE TRUE

\* generate_summary_report, scan.py:279-282
all_passed(res) ==
    \A tool \in ToolNames :
        IF res[tool].set /\ ~res[tool].skipped THEN res[tool].passed ELSE TRUE

\* run_all_scans, scan.py:352
overall(r) == r["terraform_validate"] /\ r["checkov"] /\ r["tfsec"]

\* what the external process of a tool did: how it exited ("zero",
\* "nonzero", "not_installed", "hang"), what it left as output, and the raw
\* finding records of that output
Invocation(tool, exit, output, raw) ==
    [tool |-> tool, exit |-> exit, output |-> output, raw |-> raw]
NoInvocation == Invocation("none", "none", "none", <<>>)

TerraformInvocations ==
    {<<i, "not_run">> : i \in {"nonzero", "not_installed", "hang"}}
    \cup {<<"zero", v>> :
            v \in {"valid_true", "valid_false", "valid_absent", "not_json", "hang"}}

(***************************************************************************)
(* Initial values of the parts a specification leaves alone.               *)
(***************************************************************************)
Callers == {"gate", "renderer", "scanner"}

ClassifyIdle == check_id = Null /\ sev = [c \in Callers |-> "unset"]
GateIdle ==
    /\ results_file = NoFile
    /\ max_critical = DefaultMaxCritical
    /\ max_high = DefaultMaxHigh
    /\ gate = GateUnset
    /\ comment = CommentUnset
TruncIdle ==
    /\ text = <<>>
    /\ max_length = 0
    /\ truncated = [set |-> FALSE, value |-> <<>>]
ScanIdle ==
    /\ pc = "terraform_validate"
    /\ results = [tool \in ToolNames |-> ResultNone]
    /\ ret = [tool \in ToolNames |-> FALSE]
    /\ invocation = NoInvocation
    /\ summary_status = "none"
    /\ exit_code = "none"

(***************************************************************************)
(* SpecClassify: one check id, classified by each of the three scripts.    *)
(* The classifiers are pure and share no state, so the order in which the  *)
(* three are applied is fixed here without loss.                           *)
(***************************************************************************)
CheckIdInputs == {Null} \cup {Str(s) : s \in SeqsUpTo(Tokens, MaxIdLen)}

InitClassify ==
    /\ check_id \in CheckIdInputs
    /\ sev = [c \in Callers |-> "unset"]
    /\ GateIdle
    /\ ScanIdle
    /\ TruncIdle

ClassifyGate ==
    /\ sev["gate"] = "unset"
    /\ sev' = [sev EXCEPT !["gate"] = categorize_severity(check_id)]
    /\ UNCHANGED <<check_id, gateVars, scanVars, truncVars>>

ClassifyRenderer ==
    /\ sev["gate"] # "unset"
    /\ sev["renderer"] = "unset"
    /\ sev' = [sev EXCEPT !["renderer"] = renderer_severity(check_id)]
    /\ UNCHANGED <<check_id, gateVars, scanVars, truncVars>>

ClassifyScanner ==
    /\ sev["renderer"] # "unset"
    /\ sev["scanner"] = "unset"
    /\ sev' = [sev EXCEPT !["scanner"] = map_checkov_severity(check_id)]
    /\ UNCHANGED <<check_id, gateVars, scanVars, truncVars>>

NextClassify == ClassifyGate \/ ClassifyRenderer \/ ClassifyScanner

SpecClassify == InitClassify /\ [][NextClassify]_vars

(***************************************************************************)
(* SpecGate: the gate and the renderer, each run once on the same results  *)
(* directory.                                                              *)
(***************************************************************************)
MaxCriticalValues == 0..MaxThreshold
MaxHighValues == 0..MaxThreshold \cup {DefaultMaxHigh, DefaultMaxHigh + 1}

InitGate ==
    /\ results_file \in GateFiles
    /\ max_critical \in MaxCriticalValues
    /\ max_high \in MaxHighValues
    /\ gate = GateUnset
    /\ comment = CommentUnset
    /\ ClassifyIdle
    /\ ScanIdle
    /\ TruncIdle

\* security-gate.py main: gate.evaluate() and sys.exit
GateMain ==
    /\ gate.outcome = "unset"
    /\ gate' = evaluate(results_file, max_critical, max_high)
    /\ UNCHANGED <<results_file, max_critical, max_high, comment,
                   classifyVars, scanVars, truncVars>>

\* generate-pr-comment.py main: generate_pr_comment(results_dir)
RenderComment ==
    /\ comment.outcome = "unset"
    /\ comment' = generate_pr_comment(results_file)
    /\ UNCHANGED <<results_file, max_critical, max_high, gate,
                   classifyVars, scanVars, truncVars>>

NextGate == GateMain \/ RenderComment

SpecGate == InitGate /\ [][NextGate]_vars

(***************************************************************************)
(* SpecScan: scan.py main -> run_all_scans.  subprocess.run is called      *)
(* without a timeout, so a process that never returns leaves the           *)
(* orchestrator blocked inside the call.                                   *)
(***************************************************************************)
InitScan == ScanIdle /\ ClassifyIdle /\ GateIdle /\ TruncIdle

Blocked(tool) ==
    /\ pc' = "blocked"
    /\ invocation' = Invocation(tool, "hang", "none", <<>>)
    /\ UNCHANGED <<results, ret, summary_status, exit_code>>

RunTerraformValidate ==
    /\ pc = "terraform_validate"
    /\ \E inv \in TerraformInvocations :
         IF inv[1] = "hang" \/ inv[2] = "hang"
         THEN Blocked("terraform_validate")
         ELSE LET result == terraform_validate_result(inv[1], inv[2]) IN
              /\ results' = [results EXCEPT !["terraform_validate"] = result]
              /\ ret' = [ret EXCEPT !["terraform_validate"] = result.passed]
              /\ invocation' =
                     Invocation("terraform_validate", inv[1], inv[2], <<>>)
              /\ pc' = "checkov"
              /\ UNCHANGED <<summary_status, exit_code>>
    /\ UNCHANGED <<classifyVars, gateVars, truncVars>>

RunCheckov ==
    /\ pc = "checkov"
    /\ \E exit \in {"zero", "nonzero", "not_installed", "hang"}, file \in ScanFiles :
         IF exit = "hang"
         THEN Blocked("checkov")
         ELSE LET result == checkov_result(exit, file) IN
              /\ results' = [results EXCEPT !["checkov"] = result]
              /\ ret' = [ret EXCEPT !["checkov"] = result.passed]
              /\ invocation' =
                     IF exit = "not_installed"
                     THEN Invocation("checkov", exit, "not_run", <<>>)
                     ELSE Invocation("checkov", exit, file.kind,
                                     failed_checks_of(file))
              /\ pc' = "tfsec"
              /\ UNCHANGED <<summary_status, exit_code>>
    /\ UNCHANGED <<classifyVars, gateVars, truncVars>>

RunTfsec ==
    /\ pc = "tfsec"
    /\ \E probe \in {"zero", "nonzero", "not_installed", "hang"},
          stdout \in TfsecOutputs \cup {[TfsecEmpty EXCEPT !.kind = "hang"]} :
         IF probe = "hang" \/ (probe = "zero" /\ stdout.kind = "hang")
         THEN Blocked("tfsec")
         ELSE LET result == tfsec_result(probe, stdout) IN
              /\ results' = [results EXCEPT !["tfsec"] = result]
              /\ ret' = [ret EXCEPT !["tfsec"] = tfsec_return(result)]
              /\ invocation' =
                     IF probe # "zero"
                     THEN Invocation("tfsec", probe, "not_run", <<>>)
                     ELSE Invocation("tfsec", probe, stdout.kind,
                                     IF stdout.has_results
                                     THEN stdout.results ELSE <<>>)
              /\ pc' = "summary"
              /\ UNCHANGED <<summary_status, exit_code>>
    /\ UNCHANGED <<classifyVars, gateVars, truncVars>>

GenerateSummaryReport ==
    /\ pc = "summary"
    /\ summary_status' = IF all_passed(results) THEN "PASSED" ELSE "FAILED"
    /\ pc' = "exit"
    /\ UNCHANGED <<results, ret, invocation, exit_code, classifyVars, gateVars,
                   truncVars>>

\* run_all_scans returns and main calls sys.exit(0 if success else 1)
Exit ==
    /\ pc = "exit"
    /\ exit_code' = IF overall(ret) THEN "0" ELSE "1"
    /\ pc' = "done"
    /\ UNCHANGED <<results, ret, invocation, summary_status, classifyVars,
                   gateVars, truncVars>>

NextScan ==
    \/ RunTerraformValidate
    \/ RunCheckov
    \/ RunTfsec
    \/ GenerateSummaryReport
    \/ Exit

SpecScan == InitScan /\ [][NextScan]_vars

(***************************************************************************)
(* SpecTruncate: truncate_text applied once to one string.  A string is    *)
(* the sequence of its characters.                                         *)
(***************************************************************************)
Chars == {"a", "b", "."}

InitTruncate ==
    /\ text \in SeqsUpTo(Chars, MaxTextLen)
    /\ max_length \in 0..MaxTruncLen
    /\ truncated = [set |-> FALSE, value |-> <<>>]
    /\ ClassifyIdle
    /\ GateIdle
    /\ ScanIdle

TruncateText ==
    /\ ~truncated.set
    /\ truncated' = [set |-> TRUE, value |-> truncate_text(text, max_length)]
    /\ UNCHANGED <<text, max_length, classifyVars, gateVars, scanVars>>

NextTruncate == TruncateText

SpecTruncate == InitTruncate /\ [][NextTruncate]_vars

(***************************************************************************)
(* Properties.                                                             *)
(***************************************************************************)
\* the number of failed checks of the results file that the gate's
\* classifier puts in `severity'
Classified(severity) ==
    LET fc == failed_checks_of(results_file) IN
    Cardinality({i \in 1..Len(fc) :
        categorize_severity(GetDefault(fc[i].check_id, Str(<<>>))) = severity})

LoadedDoc == results_file.kind = "doc" /\ ~Falsy(results_file)

\* C1: for a loaded, non-empty results document and thresholds >= 0, the
\* verdict evaluate returns is passed = true exactly when the CRITICAL count
\* is at most max_critical and the HIGH count is at most max_high (a count
\* equal to its threshold passes; MEDIUM and LOW play no part).
C1_ThresholdVerdict ==
    (LoadedDoc /\ gate.outcome = "returned") =>
        /\ gate.passed <=> (Classified("CRITICAL") <= max_critical
                            /\ Classified("HIGH") <= max_high)
        /\ gate.exit = (IF gate.passed THEN "0" ELSE "1")

\* six HIGH findings pass with max_high = 6
C1_Witness ==
    /\ LoadedDoc /\ gate.outcome = "returned"
    /\ Classified("HIGH") = DefaultMaxHigh + 1
    /\ max_high = DefaultMaxHigh + 1
    /\ Classified("MEDIUM") = 0
    /\ gate.passed

\* C2: with results_json.json absent the gate fails closed under every
\* policy: it returns passed = false without tallying, reports the
\* missing-scan-data message and no threshold reason, and never prints
\* PASSED.
C2_FailClosed ==
    (results_file.kind = "absent" /\ gate.outcome # "unset") =>
        /\ gate.outcome = "returned"
        /\ ~gate.passed
        /\ ~gate.tallied
        /\ gate.reasons = <<>>
        /\ "no_scan_results" \in gate.printed
        /\ "PASSED" \notin gate.printed
        /\ gate.exit = "1"

C2_Witness ==
    /\ results_file.kind = "absent"
    /\ gate.outcome = "returned"
    /\ max_high = DefaultMaxHigh + 1
    /\ max_critical = MaxThreshold

\* C3: a results file that is present and holds no failed checks (the list
\* is empty, or the keys leading to it are absent) makes the gate return
\* passed = true with all four counts 0, and makes the renderer's banner
\* "PASSED - No critical/high issues".
C3_ZeroFindingsPass ==
    (results_file.kind = "doc" /\ failed_checks_of(results_file) = <<>>) =>
        /\ gate.outcome # "unset" =>
               (gate.outcome = "returned" /\ gate.passed /\ gate.tallied
                /\ gate.counts = ZeroCounts)
        /\ comment.outcome # "unset" =>
               comment.status = "PASSED - No critical/high issues"

ContainsCriticalPattern(id) ==
    id.t = "str"
    /\ \E p \in {CKV_GCP_6, CKV_GCP_62, CKV_GCP_14} : Contains(p, id.v)

\* C4: in each of the three classifiers a check id that contains a critical
\* pattern is classified CRITICAL, never HIGH, MEDIUM or LOW, although it
\* also contains the provider prefix.
C4_CriticalPrecedence ==
    \A c \in Callers :
        (sev[c] # "unset" /\ ContainsCriticalPattern(check_id)) =>
            sev[c] = "CRITICAL"

C4_Witness ==
    /\ check_id = Str(CKV_GCP_14)
    /\ Contains(CKV_GCP_us, check_id.v)
    /\ \A c \in Callers : sev[c] = "CRITICAL"

\* the four-step first-match-wins rule
FourStepRule(id) ==
    IF \E p \in {CKV_GCP_6, CKV_GCP_62, CKV_GCP_14} : Contains(p, id)
    THEN "CRITICAL"
    ELSE IF Contains(CKV_GCP, id) \/ Contains(CKV_AWS, id) THEN "HIGH"
    ELSE IF Contains(CKV2, id) THEN "MEDIUM"
    ELSE "LOW"

\* C5: for every check id the three classifiers return the same severity,
\* the one the four-step rule assigns.
C5_SameFourStepRule ==
    (check_id.t = "str" /\ \A c \in Callers : sev[c] # "unset") =>
        \A c \in Callers : sev[c] = FourStepRule(check_id.v)

\* C6: when run_all_scans has returned, the exit code is 0 exactly when
\* every tool that ran recorded passed = true; a tool recorded as skipped is
\* left out of the conjunction.
C6_AggregateVerdict ==
    pc = "done" =>
        (exit_code = "0" <=>
            \A tool \in ToolNames :
                results[tool].set
                /\ (results[tool].skipped \/ results[tool].passed))

\* tfsec skipped, the other two passed: the run passes
C6_Witness ==
    /\ pc = "done"
    /\ results["tfsec"].skipped
    /\ results["terraform_validate"].passed
    /\ results["checkov"].passed
    /\ exit_code = "0"

\* the invocation of the last tool errored although its executable exists
InvocationErrored ==
    invocation.exit = "nonzero" \/ invocation.output = "not_json"

\* C7: a tool whose executable is present but whose invocation errors out
\* (non-zero exit, output that is not JSON) is recorded with passed = false,
\* not skipped, and makes the overall result a failure; only a tool that is
\* not installed is recorded as skipped.
C7_ExecutionFailurePropagates ==
    (invocation.tool \in ToolNames /\ invocation.exit # "hang") =>
        LET r == results[invocation.tool] IN
        /\ InvocationErrored =>
               /\ r.set /\ ~r.passed /\ ~r.skipped
               /\ ~ret[invocation.tool]
               /\ pc = "done" => exit_code = "1"
        /\ r.skipped => invocation.exit = "not_installed"

\* C8: every external invocation completes or times out, a timed-out tool
\* is recorded as failed, and so run_all_scans is never stuck before it
\* returns its verdict.
C8_BoundedWait ==
    /\ invocation.exit = "hang" =>
           (results[invocation.tool].set /\ ~results[invocation.tool].passed)
    /\ pc = "done" \/ ENABLED NextScan

FieldMissing(field) == field.t \in {"absent", "null"}

\* C9: a raw record with a missing field is still normalized to a finding
\* with safe defaults, the records after it are normalized too, and the
\* tool's run is not recorded as an execution error.
C9_NormalizationNeverRaises ==
    (invocation.tool \in {"checkov", "tfsec"} /\ invocation.output = "doc") =>
        LET r == results[invocation.tool]
            raw == invocation.raw
        IN  /\ ~r.error
            /\ Len(r.findings) = Len(raw)
            /\ \A i \in 1..Len(raw) :
                   /\ (invocation.tool = "checkov"
                       /\ FieldMissing(raw[i].check_id)) =>
                          r.findings[i] = "LOW"
                   /\ (invocation.tool = "tfsec"
                       /\ FieldMissing(raw[i].severity)) =>
                          r.findings[i] \in {"LOW", "UNKNOWN"}

\* C10: the normalized severity of a tfsec finding is the upper-cased
\* string when that is CRITICAL, HIGH, MEDIUM or LOW, and UNKNOWN otherwise;
\* it is always one of those five.
C10_TfsecSeverity ==
    (invocation.tool = "tfsec" /\ invocation.output = "doc") =>
        LET found == results["tfsec"].findings
            raw == invocation.raw
        IN  \A i \in 1..Len(found) :
                /\ found[i] \in {"CRITICAL", "HIGH", "MEDIUM", "LOW", "UNKNOWN"}
                /\ found[i] =
                       (IF raw[i].severity.t = "str"
                           /\ UpperWord[raw[i].severity.v[1]]
                                  \in {"CRITICAL", "HIGH", "MEDIUM", "LOW"}
                        THEN UpperWord[raw[i].severity.v[1]]
                        ELSE "UNKNOWN")

\* the reasons the gate reports for a failure: the threshold reasons it
\* lists under "Reasons for failure", and the missing-scan-data notice
ReportsNoReason ==
    gate.reasons = <<>> /\ "no_scan_results" \notin gate.printed

\* C11: after an evaluation the gate reports no reason exactly when it
\* passed; each exceeded threshold contributes one reason naming the
\* observed count and the configured maximum, critical before high, and a
\* threshold that is not exceeded contributes none.
C11_Reasons ==
    gate.outcome = "returned" =>
        /\ gate.passed <=> ReportsNoReason
        /\ gate.reasons =
               (IF gate.tallied /\ Classified("CRITICAL") > max_critical
                THEN <<[kind |-> "critical", count |-> Classified("CRITICAL"),
                        max |-> max_critical]>>
                ELSE <<>>)
               \o
               (IF gate.tallied /\ Classified("HIGH") > max_high
                THEN <<[kind |-> "high", count |-> Classified("HIGH"),
                        max |-> max_high]>>
                ELSE <<>>)

\* both thresholds exceeded: two reasons, critical first
C11_Witness ==
    /\ gate.outcome = "returned"
    /\ Len(gate.reasons) = 2
    /\ gate.reasons[1].kind = "critical"
    /\ gate.reasons[2].kind = "high"
    /\ gate.reasons[2].count = 1
    /\ gate.reasons[2].max = 0

SumCounts(c) == c.CRITICAL + c.HIGH + c.MEDIUM + c.LOW

\* C12: for a results document that both scripts load, the four counts the
\* renderer presents are the counts the gate tallies, and they sum to the
\* number of failed checks.
C12_RendererCounts ==
    (gate.outcome = "returned" /\ gate.tallied
     /\ comment.outcome = "returned" /\ comment.loaded) =>
        /\ comment.counts = gate.counts
        /\ SumCounts(comment.counts) = Len(failed_checks_of(results_file))

\* one LOW and one MEDIUM finding, counted alike by both scripts
C12_Witness ==
    /\ gate.outcome = "returned" /\ gate.tallied
    /\ comment.outcome = "returned" /\ comment.loaded
    /\ comment.counts.LOW = 1
    /\ comment.counts.MEDIUM = 1

\* C13: truncate_text(s, n) returns s unchanged when len(s) <= n; otherwise,
\* for n >= 3, it returns exactly n characters: the first n-3 characters of
\* s followed by "...".
C13_Truncate ==
    truncated.set =>
        LET out == truncated.value
            n == max_length
        IN  /\ Len(text) <= n => out = text
            /\ (Len(text) > n /\ n >= 3) =>
                   /\ Len(out) = n
                   /\ SubSeq(out, n - 2, n) = <<".", ".", ".">>
                   /\ \A i \in 1..(n - 3) : out[i] = text[i]

\* a five-character text cut to four: one character and the marker
C13_Witness ==
    /\ truncated.set
    /\ Len(text) = 5
    /\ max_length = 4
    /\ truncated.value = <<text[1], ".", ".", ".">>
    /\ text[1] # "."

\* C14: the output of truncate_text is never longer than max_length, for
\* every text and every max_length, 0, 1 and 2 included.
C14_NeverLonger ==
    truncated.set => Len(truncated.value) <= max_length

AllAttempted == \A tool \in ToolNames : results[tool].set

\* C15: in every run of run_all_scans the three tools are attempted in the
\* order terraform validate, checkov, tfsec and each gets a non-null entry
\* in results, whatever an earlier tool did; the summary is generated after
\* the third tool and the verdict is returned only after the summary.  A run
\* therefore never stops while a tool's entry is still null.
C15_LocalRecovery ==
    /\ results["checkov"].set => results["terraform_validate"].set
    /\ results["tfsec"].set => results["checkov"].set
    /\ summary_status # "none" => AllAttempted
    /\ exit_code # "none" => summary_status # "none"
    /\ ~AllAttempted => ENABLED NextScan

\* C16: the Overall Status the summary report shows and the boolean
\* run_all_scans returns (hence the exit code) agree, whatever each tool's
\* outcome was.
C16_SummaryAgreesWithVerdict ==
    /\ pc \in {"exit", "done"} => (summary_status = "PASSED" <=> overall(ret))
    /\ pc = "done" => (summary_status = "PASSED" <=> exit_code = "0")

\* terraform passed, checkov raised, tfsec skipped: both say failed
C16_Witness ==
    /\ pc = "done"
    /\ results["terraform_validate"].passed
    /\ results["checkov"].error
    /\ results["tfsec"].skipped
    /\ summary_status = "FAILED"
    /\ exit_code = "1"
=============================================================================
